---- MODULE Spec2Model ----
(***************************************************************************)
(* Model of native/intercept.c: the LD_PRELOAD hooks for execve, execv,    *)
(* execvp, execl, execlp, system and chdir, the interception policy, the   *)
(* argv quoter and the SSH dispatcher (fork / raw execve / waitpid).       *)
(*                                                                         *)
(* C strings are sequences of one-character strings.  A pointer is a       *)
(* sequence of length 0 (NULL) or 1 (pointing at its element).             *)
(***************************************************************************)
EXTENDS Integers, Sequences, FiniteSets, TLC

VARIABLES
  env,          \* process environment and getcwd() result, read per call
  slot,         \* the static orig_* function pointers (0 = NULL)
  pc,           \* where the calling process is
  call,         \* the hook call in progress (or the last one)
  ret,          \* value the hook returned to its caller
  errno,        \* errno of the calling thread
  exit_status,  \* status given to _exit by the calling process (-1: none)
  tr,           \* what the current call did so far
  child,        \* the process forked by the dispatcher for this call
  ssh_args,     \* the dispatcher's ssh_args array (NULL where strdup failed)
  heap,         \* per-call heap blocks still allocated
  cd,           \* what a chdir call did: file system, mkdir and raw chdir calls
  q,            \* a call of the argv quoter on its own, and the shell's reading
  thread,       \* concurrent hook calls: where each thread is in its fall-through
  stores,       \* the stores made to the static pointers by those threads
  lookups       \* the answers dlsym gave those threads

vars == <<env, slot, pc, call, ret, errno, exit_status, tr, child, ssh_args, heap, cd, q,
          thread, stores, lookups>>

-----------------------------------------------------------------------------
(* Bounds *)

\* the SSH child exits with a code in 0..MaxExitCode (or is killed by a signal)
MaxExitCode == 1

\* the quoter is given up to MaxArgs arguments of up to MaxArgLen characters
MaxArgs == 2
MaxArgLen == 2

\* threads of the host program that call hooks at the same time
MaxThreads == 2

-----------------------------------------------------------------------------
(* Pointers and strings *)

NULL == <<>>
Ptr(x) == <<x>>
IsNull(p) == Len(p) = 0
Deref(p) == p[1]

s_ls == <<"l","s">>
s_ssh == <<"s","s","h">>
s_sh == <<"s","h">>
s_bin_sh == <<"/","b","i","n","/","s","h">>
s_usr_bin_ssh == <<"/","u","s","r","/","b","i","n","/","s","s","h">>
s_dash_c == <<"-","c">>
s_ssh_h == <<"s","s","h"," ","h">>
s_its == <<"a","'">>
s_slash_ssh == <<"/","s","s","h">>
s_slash_sh == <<"/","s","h">>
s_slash_bash == <<"/","b","a","s","h">>
s_slash_zsh == <<"/","z","s","h">>
s_slash_dash == <<"/","d","a","s","h">>
s_sshpass == <<"s","s","h","p","a","s","s">>
s_dash_p == <<"-","p">>
s_dash_o == <<"-","o">>
s_strict == <<"S","t","r","i","c","t","H","o","s","t","K","e","y","C","h","e","c","k","i","n","g","=","n","o">>
s_usr_bin_sshpass == <<"/","u","s","r","/","b","i","n","/","s","s","h","p","a","s","s">>
s_cd_open == <<"c","d"," ","'">>
s_cd_close == <<"'"," ","&","&"," ">>
s_quote_escape == <<"'","\"","'","\"","'">>

\* the first n characters of s (all of s when it is shorter)
Take(s, n) == SubSeq(s, 1, IF n < Len(s) THEN n ELSE Len(s))

\* strstr(haystack, needle) != NULL
StrStr(h, n) ==
  \E i \in 1..(Len(h) - Len(n) + 1) : SubSeq(h, i, i + Len(n) - 1) = n

\* strrchr(s, c): index of the last occurrence of c, 0 when there is none
StrRChr(s, c) ==
  LET hits == {i \in 1..Len(s) : s[i] = c}
  IN IF hits = {} THEN 0 ELSE CHOOSE i \in hits : \A j \in hits : j <= i

-----------------------------------------------------------------------------
(* Inputs *)

Hooks == {"execve", "execv", "execvp", "execl", "execlp", "system"}
ExecHooks == Hooks \ {"system"}
VariadicHooks == {"execl", "execlp"}

\* <<filename, argv>> of the exec calls the host program makes
ExecCalls ==
  {<<s_ls, <<s_ls, s_its>>>>,
   <<s_ssh, <<s_ssh, <<"h">>>>>>,
   <<s_usr_bin_ssh, <<s_ssh, <<"h">>>>>>,
   <<s_sh, <<s_sh, s_dash_c, s_ssh_h>>>>,
   <<s_bin_sh, <<s_sh, s_dash_c, s_ssh_h>>>>,
   <<s_bin_sh, <<s_sh, s_dash_c, s_ls>>>>}
SystemCommands == {NULL, Ptr(s_ls), Ptr(s_ssh), Ptr(s_usr_bin_ssh), Ptr(s_ssh_h)}

HostValues == {NULL, Ptr(<<"u","@","h">>), Ptr(<<"u","@","h",":","2","2">>),
               Ptr(<<"a",":","b",":","9">>)}
PortValues == {NULL, Ptr(<<"7">>)}
PasswordValues == {NULL, Ptr(<<"p","w">>)}
CwdValues == {NULL, Ptr(<<"/","w">>)}

ENOMEM == "ENOMEM"
EINVAL == "EINVAL"
EAGAIN == "EAGAIN"
EINTR == "EINTR"
EACCES == "EACCES"
ENOENT == "ENOENT"
ENOTDIR == "ENOTDIR"
EEXIST == "EEXIST"
EFAULT == "EFAULT"
NoErrno == "0"

-----------------------------------------------------------------------------
(* Interception policy *)

\* is_shell: substring match on "/sh", "/bash", "/zsh", "/dash"
is_shell(filename) ==
  IF IsNull(filename) THEN FALSE
  ELSE \/ StrStr(Deref(filename), s_slash_sh)
       \/ StrStr(Deref(filename), s_slash_bash)
       \/ StrStr(Deref(filename), s_slash_zsh)
       \/ StrStr(Deref(filename), s_slash_dash)

\* one argv element of a shell call mentions ssh
ArgMentionsSsh(a) ==
  \/ StrStr(a, <<"s","s","h"," ">>)
  \/ StrStr(a, <<"s","s","h","\t">>)
  \/ StrStr(a, <<"s","s","h","\n">>)
  \/ a = s_ssh

\* variant of is_ssh_command that recognises only the bare name "ssh"
is_ssh_command_exact_only(command_or_filename, argv) ==
  IF ~env.app_id THEN FALSE
  ELSE IF IsNull(command_or_filename) THEN FALSE
  ELSE IF Deref(command_or_filename) = s_ssh THEN TRUE
  ELSE IF is_shell(command_or_filename) /\ ~IsNull(argv) /\ Len(Deref(argv)) > 0
       THEN \E i \in 1..Len(Deref(argv)) : ArgMentionsSsh(Deref(argv)[i])
  ELSE FALSE

\* is_ssh_command(command_or_filename, argv); argv is a pointer to a vector
is_ssh_command(command_or_filename, argv) ==
  IF ~env.app_id THEN FALSE
  ELSE IF IsNull(command_or_filename) THEN FALSE
  ELSE IF \/ StrStr(Deref(command_or_filename), s_slash_ssh)
          \/ Deref(command_or_filename) = s_ssh
       THEN TRUE
  ELSE IF is_shell(command_or_filename) /\ ~IsNull(argv) /\ Len(Deref(argv)) > 0
       THEN \E i \in 1..Len(Deref(argv)) : ArgMentionsSsh(Deref(argv)[i])
  ELSE FALSE

\* variant of should_intercept_and_get_cwd that lacks the CONSTELLATIONFS_APP_ID test
should_intercept_without_gate(command_or_filename, argv) ==
  IF is_ssh_command(command_or_filename, argv) THEN FALSE
  ELSE IF IsNull(env.cwd) THEN FALSE
  ELSE TRUE

\* should_intercept_and_get_cwd: 1 iff the call is rerouted; env.cwd is what
\* getcwd() yields (NULL when it fails)
should_intercept_and_get_cwd(command_or_filename, argv) ==
  IF ~env.app_id THEN FALSE
  ELSE IF is_ssh_command(command_or_filename, argv) THEN FALSE
  ELSE IF IsNull(env.cwd) THEN FALSE
  ELSE TRUE

\* the argv each hook hands to the policy: execl, execlp and system pass NULL
PolicyArgv(h, argv) ==
  IF h \in {"execve", "execv", "execvp"} THEN Ptr(argv) ELSE NULL

-----------------------------------------------------------------------------
(* Argv quoter: build_command_from_argv *)

RECURSIVE EscapeChars(_)
EscapeChars(s) ==
  IF s = <<>> THEN <<>>
  ELSE (IF Head(s) = "'" THEN s_quote_escape ELSE <<Head(s)>>) \o EscapeChars(Tail(s))

\* escaped_arg after the inner loop
escaped_arg(a) == <<"'">> \o EscapeChars(a) \o <<"'">>

RECURSIVE JoinQuoted(_)
JoinQuoted(argv) ==
  IF argv = <<>> THEN <<>>
  ELSE escaped_arg(Head(argv))
       \o (IF Len(argv) > 1 THEN <<" ">> ELSE <<>>)
       \o JoinQuoted(Tail(argv))

build_command_from_argv(argv) == JoinQuoted(argv)

RECURSIVE total_len(_)
total_len(argv) ==
  IF argv = <<>> THEN 0 ELSE Len(Head(argv)) + 1 + total_len(Tail(argv))

\* bytes malloc'ed for cmd and for one escaped_arg
CmdBufSize(argv) == total_len(argv) + 1
ArgBufSize(a) == Len(a) * 4 + 3

\* the strcpy/strcat calls write past one of the two buffers
QuoterOverflows(argv) ==
  \/ Len(build_command_from_argv(argv)) + 1 > CmdBufSize(argv)
  \/ \E i \in 1..Len(argv) : Len(escaped_arg(argv[i])) + 1 > ArgBufSize(argv[i])

\* the string a caller reads in cmd when the quoter returns.  Bytes written
\* past the end of cmd lie in memory the allocator hands out again (to the
\* next escaped_arg): they are read back as written, or only the bytes inside
\* the buffer are
QuoterStrings(argv) ==
  IF QuoterOverflows(argv)
  THEN {build_command_from_argv(argv),
        Take(build_command_from_argv(argv), CmdBufSize(argv))}
  ELSE {build_command_from_argv(argv)}

-----------------------------------------------------------------------------
(* Remote dispatcher: pure parts of execute_via_ssh *)

\* snprintf(full_command, cmd_size, "cd '%s' && %s", ...) or strdup(command_str)
full_command(command_str, working_directory) ==
  IF ~IsNull(working_directory)
  THEN LET cmd_size == Len(Deref(working_directory)) + Len(command_str) + 20
       IN Take(s_cd_open \o Deref(working_directory) \o s_cd_close \o command_str,
               cmd_size - 1)
  ELSE command_str

\* position of the port separator (strrchr)
colon(host_copy) == StrRChr(host_copy, ":")

user_host(host_copy) ==
  IF colon(host_copy) = 0 THEN host_copy
  ELSE SubSeq(host_copy, 1, colon(host_copy) - 1)

port_str(host_copy) ==
  IF colon(host_copy) = 0 THEN NULL
  ELSE Ptr(SubSeq(host_copy, colon(host_copy) + 1, Len(host_copy)))

\* variant of remote_port that falls back to port 22
remote_port_default_22(host_copy) ==
  IF ~IsNull(env.port) THEN env.port
  ELSE IF ~IsNull(port_str(host_copy)) THEN port_str(host_copy)
  ELSE Ptr(<<"2","2">>)

\* REMOTE_VM_PORT if set, otherwise the parsed port
remote_port(host_copy) ==
  IF ~IsNull(env.port) THEN env.port ELSE port_str(host_copy)

\* the strings the dispatcher strdup()s into ssh_args, in order
SshArgStrings(port, uhost, fullcmd) ==
  (IF ~IsNull(env.password)
   THEN <<s_sshpass, s_dash_p, Deref(env.password)>> ELSE <<>>)
  \o <<s_ssh, s_dash_o, s_strict, s_dash_p, port, uhost, fullcmd>>

exec_binary == IF ~IsNull(env.password) THEN s_usr_bin_sshpass ELSE s_usr_bin_ssh

\* ssh_args as built when the strdup of entry k returns NULL (k = 0: none does)
BuildSshArgs(strings, k) ==
  [i \in 1..Len(strings) |-> IF i = k THEN NULL ELSE Ptr(strings[i])]

\* number of leading non-NULL entries: where a NULL-terminated walk stops
RECURSIVE ArgvLen(_)
ArgvLen(args) ==
  IF args = <<>> \/ IsNull(Head(args)) THEN 0 ELSE 1 + ArgvLen(Tail(args))

\* the argument vector execve sees in ssh_args
SeenArgv(args) == [i \in 1..ArgvLen(args) |-> Deref(args[i])]

\* variant of WEXITSTATUS that hands back the whole wait status
WEXITSTATUS_whole_status(status) == status

\* WEXITSTATUS(status)
WEXITSTATUS(status) == (status \div 256) % 256

\* wait status of a child that called _exit(code) / was killed by signal sig
W_EXITCODE(code) == (code % 256) * 256
W_SIGNALED(sig) == sig

-----------------------------------------------------------------------------
(* Symbol resolver *)

\* the static orig_* pointers: one per hook, two more in the fall-through
\* branches of execl and execlp, one in execute_via_ssh, one in chdir
Slots == {"execve", "execvp", "execv", "system", "execl", "execl_execve",
          "execlp", "execlp_execvp", "ssh_execve", "chdir"}

\* the libc symbol each slot is resolved from
SlotSymbol(s) ==
  CASE s = "execl_execve" -> "execve"
    [] s = "execlp_execvp" -> "execvp"
    [] s = "ssh_execve" -> "execve"
    [] OTHER -> s

\* next-in-chain address of a symbol (never 0)
AddrOf(sym) ==
  CASE sym = "execve" -> 1 [] sym = "execvp" -> 2 [] sym = "execv" -> 3
    [] sym = "system" -> 4 [] sym = "execl" -> 5 [] sym = "execlp" -> 6
    [] OTHER -> 7

\* address of the library's own definition of sym, the hook
HookAddrOf(sym) == AddrOf(sym) + 10

\* variant of DlsymResults that looks sym up from the start of the search
\* order and so finds the hook
DlsymResults_from_start(sym) == {0, HookAddrOf(sym)}

\* what dlsym(RTLD_NEXT, sym) can return
DlsymResults(sym) == {0, AddrOf(sym)}

\* if (!orig) orig = dlsym(RTLD_NEXT, sym);   a is dlsym's answer
Resolve(sl, s, a) == IF sl[s] = 0 THEN [sl EXCEPT ![s] = a] ELSE sl

-----------------------------------------------------------------------------
(* Environment outcomes *)

\* errno after a debug_log call made with errno = e: the logger's stdio calls
\* may overwrite it when CONSTELLATION_DEBUG is set
DebugLogErrno(e) == IF env.debug THEN {e, EACCES} ELSE {e}

\* outcomes of a call through a raw exec-family pointer
RawExecOutcomes ==
  {[kind |-> "replaced", ret |-> 0, errno |-> NoErrno]}
  \cup {[kind |-> "ret", ret |-> -1, errno |-> e] : e \in {ENOENT, EACCES}}

\* outcomes of a call through the raw system pointer
RawSystemOutcomes ==
  {[kind |-> "ret", ret |-> r, errno |-> NoErrno] : r \in {0, 256}}
  \cup {[kind |-> "ret", ret |-> -1, errno |-> EAGAIN]}

\* a call through a NULL function pointer is undefined: the process is killed,
\* or the call comes back with a meaningless value
NullCallOutcomes ==
  {[kind |-> "crash", ret |-> 0, errno |-> NoErrno],
   [kind |-> "ret", ret |-> -1, errno |-> NoErrno]}

RawOutcomes(h, addr) ==
  IF addr = 0 THEN NullCallOutcomes
  ELSE IF h = "system" THEN RawSystemOutcomes ELSE RawExecOutcomes

\* wait statuses of the SSH child once it runs
ChildStatuses == {W_EXITCODE(c) : c \in 0..MaxExitCode} \cup {W_SIGNALED(9)}

-----------------------------------------------------------------------------
(* Local file system seen by chdir and mkdir *)

p_a == <<"/","a">>
p_a_b == <<"/","a","/","b">>
p_a_b_slash == <<"/","a","/","b","/">>
p_rel == <<"a">>

\* the path argument of chdir
ChdirPaths == {NULL, Ptr(<<>>), Ptr(p_a), Ptr(p_a_b), Ptr(p_a_b_slash), Ptr(p_rel)}

\* the directory entries that can exist; "/" and the current directory always
\* exist and are writable
FsNodes == {p_a, p_a_b, p_rel}

\* missing, a directory, a regular file, a directory without write permission
NodeStates == {"missing", "dir", "file", "readonly"}

\* a path without its one trailing slash, as the kernel resolves it
Canon(p) ==
  IF Len(p) > 0 /\ p[Len(p)] = "/" THEN SubSeq(p, 1, Len(p) - 1) ELSE p

\* the directory holding p: <<>> stands for "/" or the current directory
Dirname(p) == SubSeq(p, 1, StrRChr(p, "/") - 1)

\* the nodes on the way to path
NodesOn(path) == {n \in FsNodes : n = Take(Canon(path), Len(n))
                                  /\ (Len(n) = Len(Canon(path)) \/ Canon(path)[Len(n) + 1] = "/")}

\* the file systems a chdir(path) call can find: an entry exists only inside
\* a directory
FileSystems(path) ==
  {f \in [FsNodes -> NodeStates] :
     /\ \A n \in FsNodes \ NodesOn(path) : f[n] = "missing"
     /\ f[p_a_b] # "missing" => f[p_a] \in {"dir", "readonly"}}

\* errno of searching directory p (NoErrno: it can be searched)
RECURSIVE SearchErrno(_, _)
SearchErrno(f, p) ==
  IF p = <<>> THEN NoErrno
  ELSE LET up == SearchErrno(f, Dirname(p))
       IN IF up # NoErrno THEN up
          ELSE IF f[p] = "missing" THEN ENOENT
          ELSE IF f[p] = "file" THEN ENOTDIR
          ELSE NoErrno

\* the libc chdir(path)
raw_chdir(f, path) ==
  LET e == IF path = <<>> THEN ENOENT ELSE SearchErrno(f, Canon(path))
  IN [ret |-> IF e = NoErrno THEN 0 ELSE -1, errno |-> e]

\* mkdir(p, mode): the errno it fails with, NoErrno when p is created
mkdir_errno(f, p) ==
  IF p = <<>> THEN ENOENT
  ELSE IF SearchErrno(f, Dirname(p)) # NoErrno THEN SearchErrno(f, Dirname(p))
  ELSE IF f[p] # "missing" THEN EEXIST
  ELSE IF Dirname(p) # <<>> /\ f[Dirname(p)] = "readonly" THEN EACCES
  ELSE NoErrno

mkdir(f, p) ==
  LET e == mkdir_errno(f, p)
  IN [ret |-> IF e = NoErrno THEN 0 ELSE -1, errno |-> e,
      fs |-> IF e = NoErrno THEN [f EXCEPT ![p] = "dir"] ELSE f]

-----------------------------------------------------------------------------
(* mkdir_recursive *)

\* tmp after the trailing slash is cut
tmp_of(path) ==
  IF Len(path) > 0 /\ path[Len(path)] = "/" THEN SubSeq(path, 1, Len(path) - 1) ELSE path

\* the paths mkdir is called on: tmp cut at each '/' from tmp + 1 on, then tmp
RECURSIVE PrefixesFrom(_, _)
PrefixesFrom(tmp, i) ==
  IF i > Len(tmp) THEN <<tmp>>
  ELSE (IF tmp[i] = "/" THEN <<SubSeq(tmp, 1, i - 1)>> ELSE <<>>) \o PrefixesFrom(tmp, i + 1)

\* variant of MkdirTargets that creates only the last component
MkdirTargets_leaf_only(tmp) == <<tmp>>

MkdirTargets(tmp) == PrefixesFrom(tmp, 2)

\* the mkdir calls on targets[i..]; st is [fs, errno, log, ret]; the walk stops
\* at the first mkdir that fails with errno other than EEXIST
RECURSIVE RunMkdirs(_, _, _)
RunMkdirs(targets, i, st) ==
  IF i > Len(targets) THEN [st EXCEPT !.ret = 0]
  ELSE LET r == mkdir(st.fs, targets[i])
           st1 == [fs |-> r.fs,
                   errno |-> IF r.ret = 0 THEN st.errno ELSE r.errno,
                   log |-> Append(st.log, [path |-> targets[i], mode |-> "0755",
                                           ret |-> r.ret, errno |-> r.errno]),
                   ret |-> 0]
       IN IF r.ret # 0 /\ st1.errno # EEXIST THEN [st1 EXCEPT !.ret = -1]
          ELSE RunMkdirs(targets, i + 1, st1)

\* mkdir_recursive(path) entered with errno e on file system f
mkdir_recursive(f, path, e) ==
  RunMkdirs(MkdirTargets(tmp_of(path)), 1, [fs |-> f, errno |-> e, log |-> <<>>, ret |-> 0])

-----------------------------------------------------------------------------
(* State *)

NoCall == [hook |-> "none", hint |-> NULL, argv |-> <<>>]

NoTrace ==
  [intercepted |-> FALSE,   \* the policy said intercept
   raw_slot |-> "none",     \* slot the hook called through
   raw_addr |-> 0,          \* the address in that slot at the call
   raw_kind |-> "none",     \* what that call did: replaced / ret / crash
   raw_ret |-> 0,           \* what it returned
   forks |-> 0,             \* successful fork() calls
   dispatched |-> FALSE,    \* execute_via_ssh returned
   result |-> 0,            \* what it returned
   fail |-> "none",         \* nomem / noport / fork / wait
   sys_errno |-> NoErrno,   \* errno left by the failing fork or waitpid
   alloc_failed |-> "none", \* the allocation that returned NULL
   overflow |-> FALSE,      \* the quoter wrote past a buffer
   cmd_damaged |-> FALSE,   \* the command string read back is not the one written
   null_host |-> FALSE]     \* strdup was called on a NULL REMOTE_VM_HOST

NoChild ==
  [state |-> "none",     \* forked / running / nested / zombie / reaped
   orig_execve |-> 0,    \* the pointer the child calls through
   exec |-> "none",      \* what that call did: replaced / returned / crashed / hooked
   binary |-> <<>>,      \* the file handed to it
   status |-> 0]         \* wait status once the child has ended

Threads == 1..MaxThreads

\* a thread outside every hook
IdleThread == [pc |-> "idle", slot |-> "none", seen |-> 0, got |-> 0, called |-> 0]

NoThreads == [t \in Threads |-> IdleThread]

NoQuote == [stage |-> "none", argv |-> <<>>, out |-> <<>>, words |-> <<>>]

NoFs == [n \in FsNodes |-> "missing"]

NoChdir ==
  [fs0 |-> NoFs,      \* the file system when chdir was called
   fs |-> NoFs,       \* the file system now
   mkdirs |-> <<>>,   \* the mkdir calls made, in order
   raw |-> <<>>]      \* the calls made through orig_chdir, in order

Init ==
  /\ env \in [app_id : BOOLEAN, host : HostValues, port : PortValues,
              password : PasswordValues, debug : BOOLEAN, cwd : CwdValues]
  /\ slot = [s \in Slots |-> 0]
  /\ pc = "idle"
  /\ call = NoCall
  /\ ret = 0
  /\ errno = NoErrno
  /\ exit_status = -1
  /\ tr = NoTrace
  /\ child = NoChild
  /\ ssh_args = <<>>
  /\ heap = {}
  /\ cd = NoChdir
  /\ q = NoQuote
  /\ thread = NoThreads
  /\ stores = {}
  /\ lookups = {}

-----------------------------------------------------------------------------
(* The end of a hook *)

\* variant of exec_hook_tail that returns the result also when it is 0
exec_hook_tail_always_returns(result) ==
  [pc |-> "returned", exit_status |-> exit_status, ret |-> result]

\* variant of system_hook_tail that ends the process on result 0
system_hook_tail_exits(result) ==
  IF result = 0
  THEN [pc |-> "exited", exit_status |-> 0, ret |-> ret]
  ELSE [pc |-> "returned", exit_status |-> exit_status, ret |-> result]

\* exec hooks after execute_via_ssh: _exit(0) on result 0, else return result
exec_hook_tail(result) ==
  IF result = 0
  THEN [pc |-> "exited", exit_status |-> 0, ret |-> ret]
  ELSE [pc |-> "returned", exit_status |-> exit_status, ret |-> result]

\* system after execute_via_ssh: return result
system_hook_tail(result) ==
  [pc |-> "returned", exit_status |-> exit_status, ret |-> result]

HookTail(h, result) ==
  IF h = "system" THEN system_hook_tail(result) ELSE exec_hook_tail(result)

\* the hook returns r to its caller with errno e
Returns(r, e, t, sl, hp) ==
  /\ pc' = "returned" /\ ret' = r /\ errno' = e /\ tr' = t /\ slot' = sl
  /\ heap' = hp /\ child' = NoChild /\ ssh_args' = <<>>
  /\ UNCHANGED exit_status

\* the process is killed inside the hook
Crashes(t, sl) ==
  /\ pc' = "crashed" /\ tr' = t /\ slot' = sl
  /\ heap' = {} /\ child' = NoChild /\ ssh_args' = <<>>
  /\ UNCHANGED <<ret, errno, exit_status>>

\* execute_via_ssh returned r with errno e (no child left to wait for): the
\* hook frees cmd and ends
AfterDispatch(h, r, e, t, sl, hp, ch) ==
  /\ pc' = HookTail(h, r).pc
  /\ ret' = HookTail(h, r).ret
  /\ exit_status' = HookTail(h, r).exit_status
  /\ errno' = e
  /\ tr' = [t EXCEPT !.dispatched = TRUE, !.result = r]
  /\ slot' = sl /\ heap' = hp /\ child' = ch
  /\ UNCHANGED ssh_args

-----------------------------------------------------------------------------
(* Fall-through branches *)

\* dlsym's answers that matter for slot s: none is asked for once it is filled
DlsymFor(sl, s) == IF sl[s] = 0 THEN DlsymResults(SlotSymbol(s)) ELSE {sl[s]}

\* the call through slot s of sl, and its result returned to the caller
CallRaw(h, s, sl) ==
  \E o \in RawOutcomes(h, sl[s]) :
    LET t == [NoTrace EXCEPT !.raw_slot = s, !.raw_addr = sl[s],
                             !.raw_kind = o.kind, !.raw_ret = o.ret]
    IN IF o.kind = "ret" THEN Returns(o.ret, o.errno, t, sl, {})
       ELSE IF o.kind = "crash" THEN Crashes(t, sl)
       ELSE /\ pc' = "replaced" /\ tr' = t /\ slot' = sl
            /\ heap' = {} /\ child' = NoChild /\ ssh_args' = <<>>
            /\ UNCHANGED <<ret, errno, exit_status>>

\* execve, execv, execvp, system: resolve the hook's own slot and call it
FallThroughDirect(h) ==
  \E a \in DlsymFor(slot, h) : CallRaw(h, h, Resolve(slot, h, a))

\* execl, execlp: resolve the (unused) own slot, build argv from the variable
\* arguments, then resolve and call execve resp. execvp
FallThroughVariadic(h, via) ==
  \E a1 \in DlsymFor(slot, h) :
    LET sl1 == Resolve(slot, h, a1)
    IN \/ Returns(-1, ENOMEM,
                  [NoTrace EXCEPT !.fail = "nomem", !.alloc_failed = "argv"], sl1, {})
       \/ \E a2 \in DlsymFor(sl1, via) : CallRaw(h, via, Resolve(sl1, via, a2))

FallThrough(h) ==
  CASE h = "execl" -> FallThroughVariadic(h, "execl_execve")
    [] h = "execlp" -> FallThroughVariadic(h, "execlp_execvp")
    [] OTHER -> FallThroughDirect(h)

-----------------------------------------------------------------------------
(* Intercepted branch up to fork() *)

ArgBlocks(args) == {<<"ssh_args", i>> : i \in {j \in 1..Len(args) : ~IsNull(args[j])}}
\* for (i = 0; ssh_args[i] != NULL; i++) free(ssh_args[i]);
FreedByLoop(args) == {<<"ssh_args", i>> : i \in 1..ArgvLen(args)}

\* execute_via_ssh returned -1 before building ssh_args
DispatchFails(h, e, t, sl) ==
  AfterDispatch(h, -1, e, t, sl, {}, NoChild) /\ ssh_args' = <<>>

\* from the ssh_args strdup()s to the return of fork(); k is the entry whose
\* strdup returned NULL (0: none)
BuildAndFork(h, command_str, host_copy, port, k, t0, sl) ==
  LET args == BuildSshArgs(SshArgStrings(Deref(port), user_host(host_copy),
                                         full_command(command_str, env.cwd)), k)
      t1 == IF k = 0 THEN t0 ELSE [t0 EXCEPT !.alloc_failed = "ssh_args"]
  IN \/ \E e \in DebugLogErrno(EAGAIN) :
          /\ AfterDispatch(h, -1, e, [t1 EXCEPT !.fail = "fork", !.sys_errno = EAGAIN],
                           sl, ArgBlocks(args) \ FreedByLoop(args), NoChild)
          /\ ssh_args' = args
     \/ /\ pc' = "waiting"
        /\ tr' = [t1 EXCEPT !.forks = 1]
        /\ slot' = sl
        /\ child' = [NoChild EXCEPT !.state = "forked", !.orig_execve = sl["ssh_execve"]]
        /\ ssh_args' = args
        /\ heap' = (IF h # "system" THEN {<<"cmd", 0>>} ELSE {})
                   \cup {<<"full_command", 0>>, <<"host_copy", 0>>} \cup ArgBlocks(args)
        /\ UNCHANGED <<ret, errno, exit_status>>

\* execute_via_ssh(command_str, cwd) from its entry to the return of fork()
Dispatch(h, command_str, t0) ==
  \E a \in DlsymFor(slot, "ssh_execve") :
    LET sl == Resolve(slot, "ssh_execve", a)
        nomem(name) == [t0 EXCEPT !.fail = "nomem", !.alloc_failed = name]
    IN \/ DispatchFails(h, ENOMEM, nomem("full_command"), sl)
       \/ /\ IsNull(env.host)   \* strdup(NULL): undefined
          /\ \/ Crashes([t0 EXCEPT !.null_host = TRUE], sl)
             \/ DispatchFails(h, ENOMEM, [nomem("host_copy") EXCEPT !.null_host = TRUE], sl)
       \/ /\ ~IsNull(env.host)
          /\ DispatchFails(h, ENOMEM, nomem("host_copy"), sl)
       \/ /\ ~IsNull(env.host)
          /\ IsNull(remote_port(Deref(env.host)))
          /\ DispatchFails(h, EINVAL, [t0 EXCEPT !.fail = "noport"], sl)
       \/ /\ ~IsNull(env.host)
          /\ ~IsNull(remote_port(Deref(env.host)))
          /\ \E k \in 0..(IF IsNull(env.password) THEN 7 ELSE 10) :
               BuildAndFork(h, command_str, Deref(env.host),
                            remote_port(Deref(env.host)), k, t0, sl)

\* the intercepted branch of a hook: normaliser, quoter, dispatcher
Intercept(h, hintp, argv) ==
  LET t0 == [NoTrace EXCEPT !.intercepted = TRUE,
                            !.overflow = (h # "system" /\ QuoterOverflows(argv))]
      nomem(name) == [NoTrace EXCEPT !.intercepted = TRUE, !.fail = "nomem",
                                     !.alloc_failed = name]
  IN \/ /\ h \in VariadicHooks
        /\ Returns(-1, ENOMEM, nomem("argv"), slot, {})
     \/ /\ h # "system"
        /\ \E name \in {"cmd", "escaped_arg"} : Returns(-1, ENOMEM, nomem(name), slot, {})
     \/ /\ h # "system"
        /\ QuoterOverflows(argv)   \* heap written out of bounds: undefined
        /\ Crashes(t0, slot)
     \/ /\ h = "system"
        /\ Dispatch(h, Deref(hintp), t0)
     \/ /\ h # "system"
        /\ \E cmd \in QuoterStrings(argv) :
             Dispatch(h, cmd, [t0 EXCEPT !.cmd_damaged = (cmd # build_command_from_argv(argv))])

-----------------------------------------------------------------------------
(* The hooks *)

\* the host program makes one call into the library
CanCall == pc = "idle"

ExecHook(h, hintp, argv) ==
  /\ CanCall
  /\ call' = [hook |-> h, hint |-> hintp, argv |-> argv]
  /\ UNCHANGED <<env, cd, q, thread, stores, lookups>>
  /\ IF ~should_intercept_and_get_cwd(hintp, PolicyArgv(h, argv))
     THEN FallThrough(h)
     ELSE Intercept(h, hintp, argv)

Execve == \E c \in ExecCalls : ExecHook("execve", Ptr(c[1]), c[2])
Execvp == \E c \in ExecCalls : ExecHook("execvp", Ptr(c[1]), c[2])
Execv == \E c \in ExecCalls : ExecHook("execv", Ptr(c[1]), c[2])
Execl == \E c \in ExecCalls : ExecHook("execl", Ptr(c[1]), c[2])
Execlp == \E c \in ExecCalls : ExecHook("execlp", Ptr(c[1]), c[2])

\* variant of system_null that hands the NULL command to the raw system
system_null_delegates == FallThrough("system")

\* system(NULL): return 0
system_null == Returns(0, errno, NoTrace, slot, {})

System ==
  \E command \in SystemCommands :
    /\ CanCall
    /\ call' = [hook |-> "system", hint |-> command, argv |-> <<>>]
    /\ UNCHANGED <<env, cd, q, thread, stores, lookups>>
    /\ IF IsNull(command)
       THEN system_null
       ELSE IF ~should_intercept_and_get_cwd(command, NULL)
       THEN FallThrough("system")
       ELSE Intercept("system", command, <<>>)

-----------------------------------------------------------------------------
(* The chdir hook *)

\* a call through orig_chdir: the libc chdir, or a call through NULL
RawChdirOutcomes(addr, f, path) ==
  IF addr = 0 THEN NullCallOutcomes
  ELSE {[kind |-> "ret", ret |-> raw_chdir(f, path).ret, errno |-> raw_chdir(f, path).errno]}

RawChdirCall(addr, o) == [addr |-> addr, kind |-> o.kind, ret |-> o.ret, errno |-> o.errno]

\* errno after a libc call made with errno = e that left o
ErrnoAfter(e, o) == IF o.ret = 0 \/ o.errno = NoErrno THEN e ELSE o.errno

ChdirEnds(p, r, e, c, sl) ==
  /\ pc' = p /\ ret' = r /\ errno' = e /\ cd' = c /\ slot' = sl

\* chdir(path) for a non-NULL path, with orig_chdir resolved in sl
ChdirBody(path, f, sl) ==
  \E o1 \in RawChdirOutcomes(sl["chdir"], f, path) :
    LET c1 == [fs0 |-> f, fs |-> f, mkdirs |-> <<>>,
               raw |-> <<RawChdirCall(sl["chdir"], o1)>>]
        e1 == ErrnoAfter(errno, o1)
    IN IF o1.kind = "crash" THEN ChdirEnds("crashed", ret, errno, c1, sl)
       ELSE IF o1.ret = 0 THEN \E e \in DebugLogErrno(e1) : ChdirEnds("returned", 0, e, c1, sl)
       ELSE
         \/ /\ path = <<>>   \* tmp[len - 1] and tmp[1] are read unwritten: undefined
            /\ ChdirEnds("crashed", ret, errno, c1, sl)
         \/ \E ea \in DebugLogErrno(e1) :
              LET m == mkdir_recursive(f, path, ea)
                  c2 == [c1 EXCEPT !.fs = m.fs, !.mkdirs = m.log]
              IN IF m.ret # 0
                 THEN \E e \in DebugLogErrno(m.errno) : ChdirEnds("returned", o1.ret, e, c2, sl)
                 ELSE \E eb \in DebugLogErrno(m.errno) :
                      \E o2 \in RawChdirOutcomes(sl["chdir"], m.fs, path) :
                        LET c3 == [c2 EXCEPT !.raw = Append(@, RawChdirCall(sl["chdir"], o2))]
                        IN IF o2.kind = "crash" THEN ChdirEnds("crashed", ret, errno, c3, sl)
                           ELSE \E e \in DebugLogErrno(ErrnoAfter(eb, o2)) :
                                  ChdirEnds("returned", o2.ret, e, c3, sl)

Chdir ==
  \E path \in ChdirPaths :
    \E f \in FileSystems(IF IsNull(path) THEN <<>> ELSE Deref(path)) :
      /\ CanCall
      /\ call' = [hook |-> "chdir", hint |-> path, argv |-> <<>>]
      /\ UNCHANGED <<env, exit_status, tr, child, ssh_args, heap, q, thread, stores, lookups>>
      /\ IF IsNull(path)
         THEN ChdirEnds("returned", -1, EFAULT, [NoChdir EXCEPT !.fs0 = f, !.fs = f], slot)
         ELSE \E a \in DlsymFor(slot, "chdir") :
                ChdirBody(Deref(path), f, Resolve(slot, "chdir", a))

-----------------------------------------------------------------------------
(* The forked child and the parent's waitpid *)

\* child: orig_execve(exec_binary, ssh_args, environ); _exit(127) if it returns
ChildExec ==
  /\ child.state = "forked"
  /\ \/ /\ child.orig_execve = AddrOf("execve")
        /\ child' = [child EXCEPT !.state = "running", !.exec = "replaced",
                                  !.binary = exec_binary]
     \/ /\ child.orig_execve = AddrOf("execve")
        /\ child' = [child EXCEPT !.state = "zombie", !.exec = "returned",
                                  !.binary = exec_binary, !.status = W_EXITCODE(127)]
     \/ /\ child.orig_execve = HookAddrOf("execve")   \* the child is in the hook again
        /\ child' = [child EXCEPT !.state = "nested", !.exec = "hooked",
                                  !.binary = exec_binary]
     \/ /\ child.orig_execve = 0
        /\ \E o \in NullCallOutcomes :
             child' = [child EXCEPT !.state = "zombie",
                         !.exec = IF o.kind = "crash" THEN "crashed" ELSE "returned",
                         !.status = IF o.kind = "crash" THEN W_SIGNALED(11)
                                    ELSE W_EXITCODE(127)]
  /\ UNCHANGED <<env, slot, pc, call, ret, errno, exit_status, tr, ssh_args, heap, cd, q, thread, stores, lookups>>

\* the ssh (or sshpass) process ends
ChildExit ==
  /\ child.state = "running"
  /\ \E st \in ChildStatuses : child' = [child EXCEPT !.state = "zombie", !.status = st]
  /\ UNCHANGED <<env, slot, pc, call, ret, errno, exit_status, tr, ssh_args, heap, cd, q, thread, stores, lookups>>

\* parent: waitpid returned the child's status; free and return WEXITSTATUS
WaitReturns ==
  /\ pc = "waiting"
  /\ child.state = "zombie"
  /\ \E e \in DebugLogErrno(errno) :
       AfterDispatch(call.hook, WEXITSTATUS(child.status), e, tr, slot,
                     ArgBlocks(ssh_args) \ FreedByLoop(ssh_args),
                     [child EXCEPT !.state = "reaped"])
  /\ UNCHANGED <<env, call, cd, q, thread, stores, lookups>>

\* parent: waitpid returned -1 (interrupted); free two blocks and return -1
WaitFails ==
  /\ pc = "waiting"
  /\ child.state \in {"forked", "running", "nested"}
  /\ \E e \in DebugLogErrno(EINTR) :
       AfterDispatch(call.hook, -1, e, [tr EXCEPT !.fail = "wait", !.sys_errno = EINTR],
                     slot, ArgBlocks(ssh_args), child)
  /\ UNCHANGED <<env, call, cd, q, thread, stores, lookups>>

Next ==
  \/ Execve \/ Execvp \/ Execv \/ Execl \/ Execlp \/ System \/ Chdir
  \/ ChildExec \/ ChildExit \/ WaitReturns \/ WaitFails

Spec == Init /\ [][Next]_vars

-----------------------------------------------------------------------------
(* The quoter on its own: build_command_from_argv applied to an argument     *)
(* vector, and a POSIX shell splitting its result into words                 *)

QuoterAlphabet == {"'", " ", "$", "*", "\""}

RECURSIVE StringsUpTo(_)
StringsUpTo(n) ==
  IF n = 0 THEN {<<>>}
  ELSE StringsUpTo(n - 1)
       \cup {Append(w, c) : w \in {v \in StringsUpTo(n - 1) : Len(v) = n - 1},
                            c \in QuoterAlphabet}

RECURSIVE VectorsUpTo(_)
VectorsUpTo(n) ==
  IF n = 0 THEN {<<>>}
  ELSE VectorsUpTo(n - 1)
       \cup {Append(v, a) : v \in {u \in VectorsUpTo(n - 1) : Len(u) = n - 1},
                            a \in StringsUpTo(MaxArgLen)}

QuoterArgvs == VectorsUpTo(MaxArgs)

\* what a word gets where the shell would expand or reject instead of copying
sh_expansion == "<expansion>"
sh_error == <<<<"<syntax error>">>>>

\* the shell's word splitting of s from position i on.  mode: plain, single
\* (inside '...'), double (inside "..."); word: the word being collected;
\* open: a word has begun; words: the finished words
RECURSIVE ShellWords(_, _, _, _, _, _)
ShellWords(s, i, mode, word, open, words) ==
  IF i > Len(s)
  THEN IF mode # "plain" THEN sh_error
       ELSE IF open THEN Append(words, word) ELSE words
  ELSE LET c == s[i]
       IN IF mode = "single"
          THEN IF c = "'" THEN ShellWords(s, i + 1, "plain", word, TRUE, words)
               ELSE ShellWords(s, i + 1, "single", Append(word, c), TRUE, words)
          ELSE IF mode = "double"
          THEN IF c = "\"" THEN ShellWords(s, i + 1, "plain", word, TRUE, words)
               ELSE IF c \in {"$"}
               THEN ShellWords(s, i + 1, "double", Append(word, sh_expansion), TRUE, words)
               ELSE ShellWords(s, i + 1, "double", Append(word, c), TRUE, words)
          ELSE IF c = "'" THEN ShellWords(s, i + 1, "single", word, TRUE, words)
          ELSE IF c = "\"" THEN ShellWords(s, i + 1, "double", word, TRUE, words)
          ELSE IF c \in {" ", "\t", "\n"}
          THEN ShellWords(s, i + 1, "plain", <<>>, FALSE,
                          IF open THEN Append(words, word) ELSE words)
          ELSE IF c \in {"$", "*", "?", "[", "~", "#", ";", "&", "|", "<", ">"}
          THEN ShellWords(s, i + 1, "plain", Append(word, sh_expansion), TRUE, words)
          ELSE ShellWords(s, i + 1, "plain", Append(word, c), TRUE, words)

sh_parse(s) == ShellWords(s, 1, "plain", <<>>, FALSE, <<>>)

QuoterInit ==
  /\ env = [app_id |-> TRUE, host |-> NULL, port |-> NULL, password |-> NULL,
            debug |-> FALSE, cwd |-> NULL]
  /\ slot = [s \in Slots |-> 0]
  /\ pc = "idle"
  /\ call = NoCall
  /\ ret = 0
  /\ errno = NoErrno
  /\ exit_status = -1
  /\ tr = NoTrace
  /\ child = NoChild
  /\ ssh_args = <<>>
  /\ heap = {}
  /\ cd = NoChdir
  /\ thread = NoThreads
  /\ stores = {}
  /\ lookups = {}
  /\ q \in {[stage |-> "input", argv |-> A, out |-> <<>>, words |-> <<>>] : A \in QuoterArgvs}

QuoterUnchanged ==
  UNCHANGED <<env, slot, pc, call, ret, errno, exit_status, tr, child, ssh_args, heap, cd,
              thread, stores, lookups>>

\* build_command_from_argv(argv) returns cmd
Quote ==
  /\ q.stage = "input"
  /\ \E cmd \in QuoterStrings(q.argv) : q' = [q EXCEPT !.stage = "quoted", !.out = cmd]
  /\ QuoterUnchanged

\* one of its two malloc calls returns NULL: the result is NULL
QuoteNoMemory ==
  /\ q.stage = "input"
  /\ q' = [q EXCEPT !.stage = "nomem"]
  /\ QuoterUnchanged

\* the writes past a buffer kill the process
QuoteCrashes ==
  /\ q.stage = "input"
  /\ QuoterOverflows(q.argv)
  /\ q' = [q EXCEPT !.stage = "crashed"]
  /\ QuoterUnchanged

\* a POSIX shell reads the command string
ShellReads ==
  /\ q.stage = "quoted"
  /\ q' = [q EXCEPT !.stage = "parsed", !.words = sh_parse(q.out)]
  /\ QuoterUnchanged

QuoterNext == Quote \/ QuoteNoMemory \/ QuoteCrashes \/ ShellReads

QuoterSpec == QuoterInit /\ [][QuoterNext]_vars

-----------------------------------------------------------------------------
(* Concurrent hook calls: the fall-through branch                            *)
(*     static orig_f orig = NULL;                                            *)
(*     if (!orig) orig = dlsym(RTLD_NEXT, name);                             *)
(*     return orig(...);                                                     *)
(* run by several threads, one load or store of the static pointer at a      *)
(* time.  The pointer is a plain aligned word: a load that races with a      *)
(* store yields the value before or the value after it.                      *)

\* the pointers of hooks whose fall-through call comes back to the thread
ThreadSlots == {"execve", "system", "chdir"}

ThreadInit ==
  /\ env = [app_id |-> FALSE, host |-> NULL, port |-> NULL, password |-> NULL,
            debug |-> FALSE, cwd |-> NULL]
  /\ slot = [s \in Slots |-> 0]
  /\ pc = "idle"
  /\ call = NoCall
  /\ ret = 0
  /\ errno = NoErrno
  /\ exit_status = -1
  /\ tr = NoTrace
  /\ child = NoChild
  /\ ssh_args = <<>>
  /\ heap = {}
  /\ cd = NoChdir
  /\ q = NoQuote
  /\ thread = NoThreads
  /\ stores = {}
  /\ lookups = {}

ThreadUnchanged ==
  UNCHANGED <<env, pc, call, ret, errno, exit_status, tr, child, ssh_args, heap, cd, q>>

\* the answers dlsym has given so far for sym: the libraries behind this one
\* do not change, so it answers the same each time
PriorAnswers(sym) == {l.addr : l \in {m \in lookups : m.sym = sym}}

\* a thread enters a hook that falls through
ThreadEnters(t) ==
  /\ thread[t].pc = "idle"
  /\ \E s \in ThreadSlots :
       thread' = [thread EXCEPT ![t] = [IdleThread EXCEPT !.pc = "test", !.slot = s]]
  /\ UNCHANGED <<slot, stores, lookups>>
  /\ ThreadUnchanged

\* if (!orig): one load of the pointer
ThreadTests(t) ==
  /\ thread[t].pc = "test"
  /\ thread' = [thread EXCEPT ![t].seen = slot[thread[t].slot],
                              ![t].pc = IF slot[thread[t].slot] = 0 THEN "dlsym" ELSE "call"]
  /\ UNCHANGED <<slot, stores, lookups>>
  /\ ThreadUnchanged

\* dlsym(RTLD_NEXT, name)
ThreadResolves(t) ==
  /\ thread[t].pc = "dlsym"
  /\ \E a \in DlsymResults(SlotSymbol(thread[t].slot)) :
       /\ PriorAnswers(SlotSymbol(thread[t].slot)) \subseteq {a}
       /\ thread' = [thread EXCEPT ![t].got = a, ![t].pc = "store"]
       /\ lookups' = lookups \cup {[sym |-> SlotSymbol(thread[t].slot), addr |-> a]}
  /\ UNCHANGED <<slot, stores>>
  /\ ThreadUnchanged

\* orig = ...: one store to the pointer
ThreadStores(t) ==
  /\ thread[t].pc = "store"
  /\ slot' = [slot EXCEPT ![thread[t].slot] = thread[t].got]
  /\ stores' = stores \cup {[slot |-> thread[t].slot, old |-> slot[thread[t].slot],
                             value |-> thread[t].got]}
  /\ thread' = [thread EXCEPT ![t].pc = "call"]
  /\ UNCHANGED lookups
  /\ ThreadUnchanged

\* the value the thread itself last loaded from or stored to the pointer
OwnValue(t) == IF thread[t].seen # 0 THEN thread[t].seen ELSE thread[t].got

\* orig(...): the call goes through the pointer as it is now, or through the
\* value the thread still holds in a register
ThreadCalls(t) ==
  /\ thread[t].pc = "call"
  /\ \E a \in {slot[thread[t].slot], OwnValue(t)} :
       thread' = [thread EXCEPT ![t].called = a, ![t].pc = "called"]
  /\ UNCHANGED <<slot, stores, lookups>>
  /\ ThreadUnchanged

\* the hook returns to the thread, which may call a hook again
ThreadReturns(t) ==
  /\ thread[t].pc = "called"
  /\ thread' = [thread EXCEPT ![t] = IdleThread]
  /\ UNCHANGED <<slot, stores, lookups>>
  /\ ThreadUnchanged

ThreadNext ==
  \E t \in Threads :
    \/ ThreadEnters(t) \/ ThreadTests(t) \/ ThreadResolves(t)
    \/ ThreadStores(t) \/ ThreadCalls(t) \/ ThreadReturns(t)

ThreadSpec == ThreadInit /\ [][ThreadNext]_vars

-----------------------------------------------------------------------------
(* Properties *)

Called == call.hook \in Hooks

\* the slot a hook's fall-through branch calls through
RawSlotOf(h) ==
  CASE h = "execl" -> "execl_execve"
    [] h = "execlp" -> "execlp_execvp"
    [] OTHER -> h

\* the fall-through branch called through its slot and, if that call came
\* back, the hook returned what it returned
DelegatedToRaw ==
  /\ tr.raw_slot = RawSlotOf(call.hook)
  /\ pc \in {"returned", "replaced", "crashed"}
  /\ pc = "returned" => ret = tr.raw_ret

\* execl / execlp gave up because the malloc of their argv failed
NormaliserOutOfMemory ==
  /\ call.hook \in VariadicHooks
  /\ tr.alloc_failed = "argv"
  /\ tr.raw_slot = "none"
  /\ pc = "returned" /\ ret = -1 /\ errno = ENOMEM

NoSshChild == ~tr.intercepted /\ tr.forks = 0 /\ child.state = "none" /\ pc # "waiting"

\* C1 (as stated): with CONSTELLATIONFS_APP_ID unset, every call of the six
\* hooks forks no SSH child, is delegated to the raw libc symbol and returns
\* what the raw call returns.
C1_AlwaysDelegated ==
  (Called /\ ~env.app_id) =>
    /\ NoSshChild
    /\ tr.raw_slot # "none"
    /\ pc = "returned" => ret = tr.raw_ret

\* C1 (amended): with CONSTELLATIONFS_APP_ID unset no hook forks an SSH child
\* or calls _exit; system(NULL) returns 0 without a raw call, execl/execlp
\* return -1 with ENOMEM when the malloc of their argv fails, and every other
\* call goes through the hook's raw pointer and returns what that call returns.
C1_GateUnsetNoDispatch ==
  (Called /\ ~env.app_id) =>
    /\ NoSshChild
    /\ pc # "exited"
    /\ \/ /\ call.hook = "system" /\ IsNull(call.hint)
          /\ pc = "returned" /\ ret = 0 /\ tr.raw_slot = "none"
       \/ NormaliserOutOfMemory
       \/ /\ ~(call.hook = "system" /\ IsNull(call.hint))
          /\ DelegatedToRaw

C1_Witness ==
  /\ ~env.app_id /\ env.cwd # NULL
  /\ call.hook = "execvp" /\ call.hint = Ptr(s_ls)
  /\ pc = "returned" /\ tr.raw_slot = "execvp" /\ ret = -1 /\ errno = ENOENT

\* C2: an intercepted exec hook whose dispatcher returned 0 ends the process
\* with _exit(0) and does not return; one whose dispatcher returned a non-zero
\* result returns exactly that result; so an intercepted exec hook never
\* returns 0.
C2_ExecExitsOnZero ==
  (call.hook \in ExecHooks /\ tr.intercepted) =>
    /\ tr.dispatched =>
         IF tr.result = 0
         THEN pc = "exited" /\ exit_status = 0
         ELSE pc = "returned" /\ ret = tr.result /\ exit_status = -1
    /\ pc = "returned" => ret # 0
    /\ pc = "exited" => (tr.dispatched /\ tr.result = 0)

C2_Witness ==
  /\ call.hook = "execlp" /\ tr.intercepted /\ tr.dispatched
  /\ tr.result = 0 /\ child.state = "reaped" /\ child.status = W_EXITCODE(0)
  /\ pc = "exited" /\ exit_status = 0

\* C3: the system hook never ends the calling process with _exit: for a
\* non-null command that is intercepted it returns the dispatcher result,
\* 0 included.
C3_SystemReturnsResult ==
  (call.hook = "system") =>
    /\ pc # "exited" /\ exit_status = -1
    /\ (~IsNull(call.hint) /\ tr.intercepted /\ tr.dispatched) =>
         (pc = "returned" /\ ret = tr.result)

C3_Witness ==
  /\ call.hook = "system" /\ call.hint = Ptr(s_ls) /\ tr.intercepted
  /\ tr.dispatched /\ tr.result = 0 /\ child.state = "reaped"
  /\ pc = "returned" /\ ret = 0

\* the command hint is exactly "ssh" or contains "/ssh"
HintIsSsh ==
  /\ ~IsNull(call.hint)
  /\ \/ Deref(call.hint) = s_ssh
     \/ StrStr(Deref(call.hint), s_slash_ssh)

\* C4 (as stated): with the gate passed, a call whose hint is "ssh" or contains
\* "/ssh" forks no SSH child, calls the raw libc symbol and returns its result.
C4_SshHintAlwaysDelegated ==
  (Called /\ env.app_id /\ HintIsSsh) =>
    /\ NoSshChild
    /\ tr.raw_slot # "none"
    /\ pc = "returned" => ret = tr.raw_ret

\* C4 (amended): with the gate passed, a call whose hint is "ssh" or contains
\* "/ssh" is never intercepted and forks no SSH child; it goes through the
\* hook's raw pointer and returns what that call returns, except that execl and
\* execlp return -1 with ENOMEM, without a raw call, when the malloc of their
\* argv fails.
C4_SshHintNotIntercepted ==
  (Called /\ env.app_id /\ HintIsSsh) =>
    /\ NoSshChild
    /\ pc # "exited"
    /\ NormaliserOutOfMemory \/ DelegatedToRaw

C4_Witness ==
  /\ env.app_id /\ env.cwd # NULL
  /\ call.hook = "execv" /\ call.hint = Ptr(s_usr_bin_ssh)
  /\ tr.raw_slot = "execv" /\ tr.raw_addr # 0 /\ pc = "replaced"

\* the part of a path after its last '/'
Basename(f) == SubSeq(f, StrRChr(f, "/") + 1, Len(f))

ShellNames == {s_sh, <<"b","a","s","h">>, <<"z","s","h">>, <<"d","a","s","h">>}

\* C5: with the gate passed, an exec hook whose hint has the basename sh, bash,
\* zsh or dash (a bare "sh" included) and whose argument vector has an element
\* that is "ssh" or contains "ssh" followed by white space is not intercepted
\* and forks no SSH child.
C5_ShellWithSshNotIntercepted ==
  (/\ call.hook \in ExecHooks
   /\ env.app_id
   /\ Basename(Deref(call.hint)) \in ShellNames
   /\ \E i \in 1..Len(call.argv) : ArgMentionsSsh(call.argv[i]))
  => (~tr.intercepted /\ tr.forks = 0)

HostHasNoPort ==
  /\ ~IsNull(env.host)
  /\ \A i \in 1..Len(Deref(env.host)) : Deref(env.host)[i] # ":"
  /\ IsNull(env.port)

\* C6 (as stated): when REMOTE_VM_HOST has no ':' and REMOTE_VM_PORT is unset,
\* every intercepted call returns -1 with errno = EINVAL, forks no child and
\* does not end the process.
C6_AlwaysEinval ==
  (tr.intercepted /\ HostHasNoPort) =>
    /\ tr.forks = 0 /\ child.state = "none"
    /\ pc = "returned" /\ ret = -1 /\ errno = EINVAL

\* C6 (amended): when REMOTE_VM_HOST has no ':' and REMOTE_VM_PORT is unset, no
\* intercepted call forks a child or calls _exit, and an intercepted call that
\* returns returns -1, with errno = EINVAL unless an allocation failed before
\* the port check, in which case errno = ENOMEM.
C6_NoPortFails ==
  (tr.intercepted /\ HostHasNoPort) =>
    /\ tr.forks = 0 /\ child.state = "none"
    /\ pc \in {"returned", "crashed"}
    /\ pc = "returned" =>
         /\ ret = -1
         /\ IF tr.alloc_failed = "none"
            THEN errno = EINVAL /\ tr.fail = "noport"
            ELSE errno = ENOMEM /\ tr.alloc_failed \in
                   {"argv", "cmd", "escaped_arg", "full_command", "host_copy"}

C6_Witness ==
  /\ call.hook = "execve" /\ tr.intercepted /\ HostHasNoPort
  /\ tr.fail = "noport" /\ pc = "returned" /\ ret = -1 /\ errno = EINVAL

\* the argument vector the specification gives the SSH child
ExpectedPort ==
  IF ~IsNull(env.port) THEN Deref(env.port)
  ELSE SubSeq(Deref(env.host), StrRChr(Deref(env.host), ":") + 1, Len(Deref(env.host)))

ExpectedHost ==
  IF StrRChr(Deref(env.host), ":") = 0 THEN Deref(env.host)
  ELSE SubSeq(Deref(env.host), 1, StrRChr(Deref(env.host), ":") - 1)

ExpectedCommand ==
  s_cd_open \o Deref(env.cwd) \o s_cd_close
  \o (IF call.hook = "system" THEN Deref(call.hint) ELSE build_command_from_argv(call.argv))

ExpectedSshVector ==
  <<s_ssh, s_dash_o, s_strict, s_dash_p, ExpectedPort, ExpectedHost, ExpectedCommand>>

\* the argument vector the forked child hands to execve
ChildArgv == SeenArgv(ssh_args)

PasswordOffset == IF IsNull(env.password) THEN 0 ELSE 3

\* C7: the port given to SSH is REMOTE_VM_PORT when set, else the text after the
\* last ':' of REMOTE_VM_HOST; the host given to SSH is the text before the last
\* ':' (the whole value when there is none).
C7_PortAndHostGiven ==
  (tr.forks = 1) =>
    /\ Len(ChildArgv) >= PasswordOffset + 6
    /\ ChildArgv[PasswordOffset + 5] = ExpectedPort
    /\ ChildArgv[PasswordOffset + 6] = ExpectedHost

\* C8: the SSH child's argument vector is exactly [ssh, -o,
\* StrictHostKeyChecking=no, -p, port, user@host, command], run as /usr/bin/ssh,
\* without a password, and [sshpass, -p, password] followed by that vector, run
\* as /usr/bin/sshpass, with one; command is "cd '<cwd>' && <command string>".
C8_ExactVector ==
  (tr.forks = 1) =>
    IF IsNull(env.password)
    THEN ChildArgv = ExpectedSshVector /\ exec_binary = s_usr_bin_ssh
    ELSE /\ ChildArgv = <<s_sshpass, s_dash_p, Deref(env.password)>> \o ExpectedSshVector
         /\ exec_binary = s_usr_bin_sshpass

\* the same two statements for the calls in which every strdup into ssh_args
\* succeeded: these hold
PortAndHostGivenWhenCopied ==
  (tr.forks = 1 /\ tr.alloc_failed = "none") => C7_PortAndHostGiven

ExactVectorWhenCopied ==
  (tr.forks = 1 /\ tr.alloc_failed = "none" /\ ~tr.cmd_damaged) => C8_ExactVector

\* C9: when an intercepted exec hook returns to its caller, errno holds the
\* value for the failure: ENOMEM after a failed allocation, EINVAL for a missing
\* port, the failing syscall's errno after a failed fork or waitpid (also with
\* debug logging on).
C9_ErrnoSet ==
  (call.hook \in ExecHooks /\ tr.intercepted /\ pc = "returned") =>
    /\ tr.alloc_failed # "none" => errno = ENOMEM
    /\ tr.fail = "noport" => errno = EINVAL
    /\ (tr.fail \in {"fork", "wait"} /\ tr.alloc_failed = "none") => errno = tr.sys_errno

\* C10: if an allocation made during an intercepted call fails (each strdup into
\* the SSH argument vector included), the hook returns -1 with errno = ENOMEM
\* and no SSH child is run with an incomplete vector.
C10_AllocFailureIsEnomem ==
  (tr.intercepted /\ tr.alloc_failed # "none") =>
    /\ tr.forks = 0
    /\ pc = "returned" => (ret = -1 /\ errno = ENOMEM)

\* a chdir call with a path, whose orig_chdir pointer was resolved
ChdirCalled == call.hook = "chdir" /\ ~IsNull(call.hint)
ChdirPath == Canon(Deref(call.hint))

\* every prefix of the path that ends before a '/' (the empty one excepted),
\* and the path itself
PathPrefixes ==
  {SubSeq(ChdirPath, 1, i - 1) : i \in {j \in 2..Len(ChdirPath) : ChdirPath[j] = "/"}}
  \cup {ChdirPath}

\* the mkdir calls made are on the prefixes of the path, shortest first, each
\* with mode 0755, and only the last of them may have failed other than with
\* EEXIST
MkdirsLeftToRight ==
  /\ \A i \in 1..Len(cd.mkdirs) :
       /\ cd.mkdirs[i].path \in PathPrefixes
       /\ cd.mkdirs[i].mode = "0755"
       /\ \A p \in PathPrefixes : Len(p) < Len(cd.mkdirs[i].path) =>
            \E j \in 1..(i - 1) : cd.mkdirs[j].path = p
       /\ i < Len(cd.mkdirs) => (cd.mkdirs[i].ret = 0 \/ cd.mkdirs[i].errno = EEXIST)

\* every prefix was given to mkdir, and each call succeeded or found it existing
CreationSucceeded ==
  /\ Len(cd.mkdirs) = Cardinality(PathPrefixes)
  /\ \A i \in 1..Len(cd.mkdirs) : cd.mkdirs[i].ret = 0 \/ cd.mkdirs[i].errno = EEXIST

\* the steps of the chdir hook for a call that returned
ChdirSteps ==
  /\ Len(cd.raw) >= 1
  /\ IF cd.raw[1].ret = 0
     THEN ret = 0 /\ Len(cd.raw) = 1 /\ cd.mkdirs = <<>> /\ cd.fs = cd.fs0
     ELSE /\ MkdirsLeftToRight
          /\ Len(cd.mkdirs) >= 1
          /\ IF CreationSucceeded
             THEN Len(cd.raw) = 2 /\ ret = cd.raw[2].ret
             ELSE Len(cd.raw) = 1 /\ ret = cd.raw[1].ret

\* no component of the path that is missing can fail to be created
NoCreationCanFail ==
  \A p \in PathPrefixes :
    /\ p # <<>>
    /\ cd.fs0[p] = "missing" =>
         (Dirname(p) = <<>> \/ cd.fs0[Dirname(p)] \in {"missing", "dir"})

\* every component of the path is a directory or is missing
AllDirsOrMissing == \A p \in PathPrefixes : p # <<>> /\ cd.fs0[p] \in {"missing", "dir", "readonly"}

\* C11 (as stated): chdir(path) calls the raw chdir first; if that succeeds it
\* returns 0 and creates nothing; if it fails the hook creates every prefix of
\* path from left to right with mode 0755 (EEXIST counts as success, another
\* error stops), and after a successful creation calls the raw chdir once more
\* and returns its result; so for a path none of whose missing components can
\* fail to be created, chdir returns 0.
C11_CreatableMeansZero ==
  (ChdirCalled /\ pc = "returned" /\ cd.raw[1].addr # 0) =>
    /\ ChdirSteps
    /\ NoCreationCanFail => ret = 0

\* C11 (amended): the same steps; chdir returns 0 exactly when the first or the
\* retried raw chdir returned 0, which is the case for every path whose
\* components are directories or missing and none of whose missing components
\* can fail to be created.  A path that exists as a regular file is not
\* created (mkdir reports EEXIST) and the retried chdir fails.  chdir(NULL)
\* returns -1 with EFAULT without any raw call.
C11_ChdirCreatesThenRetries ==
  /\ (ChdirCalled /\ pc = "returned") =>
       /\ ChdirSteps
       /\ ret = 0 <=> cd.raw[Len(cd.raw)].ret = 0
       /\ (cd.raw[1].addr # 0 /\ NoCreationCanFail /\ AllDirsOrMissing) => ret = 0
  /\ (call.hook = "chdir" /\ IsNull(call.hint)) =>
       (pc = "returned" /\ ret = -1 /\ errno = EFAULT /\ cd.raw = <<>> /\ cd.mkdirs = <<>>)

C11_Witness ==
  /\ call.hook = "chdir" /\ call.hint = Ptr(p_a_b_slash) /\ pc = "returned" /\ ret = 0
  /\ cd.fs0[p_a] = "missing" /\ cd.fs0[p_a_b] = "missing"
  /\ Len(cd.raw) = 2 /\ cd.raw[1].ret = -1 /\ cd.raw[1].errno = ENOENT /\ cd.raw[2].ret = 0
  /\ Len(cd.mkdirs) = 2 /\ cd.mkdirs[1].path = p_a /\ cd.mkdirs[2].path = p_a_b
  /\ cd.fs[p_a] = "dir" /\ cd.fs[p_a_b] = "dir"

\* the raw chdir failed and the directory tree could not be created
CreationFailed ==
  /\ ChdirCalled /\ pc = "returned"
  /\ cd.raw[1].addr # 0 /\ cd.raw[1].ret # 0
  /\ ~CreationSucceeded

\* C12: when the raw chdir fails and the directory tree cannot be created, the
\* hook returns -1, attempts no second raw chdir, and errno on return is the
\* errno of the failed chdir, not that of the failed mkdir (debug logging off).
C12_OriginalErrnoPreserved ==
  (CreationFailed /\ ~env.debug) =>
    /\ ret = -1
    /\ Len(cd.raw) = 1
    /\ errno = cd.raw[1].errno

\* the part of that statement about the return value holds; errno is the one
\* left by the last failing mkdir
OriginalResultReturned ==
  (CreationFailed /\ ~env.debug) =>
    /\ ret = -1
    /\ Len(cd.raw) = 1
    /\ errno = cd.mkdirs[Len(cd.mkdirs)].errno

\* concatenation of the strings of ws, sep between neighbours
RECURSIVE Joined(_, _)
Joined(ws, sep) ==
  IF ws = <<>> THEN <<>>
  ELSE IF Len(ws) = 1 THEN ws[1]
  ELSE ws[1] \o sep \o Joined(Tail(ws), sep)

\* a in single quotes, each ' in it replaced by '"'"'
SingleQuoted(a) ==
  <<"'">> \o Joined([i \in 1..Len(a) |-> IF a[i] = "'" THEN <<"'", "\"", "'", "\"", "'">>
                                           ELSE <<a[i]>>], <<>>) \o <<"'">>

QuotedForm(A) == Joined([i \in 1..Len(A) |-> SingleQuoted(A[i])], <<" ">>)

\* C13: for every argument vector A over the alphabet, the quoter's output is
\* the arguments in order, each in single quotes with every embedded single
\* quote replaced by '"'"', joined by one space with no trailing space, and
\* parsing that output by the POSIX quoting rules yields exactly A.
C13_QuoterRoundTrip ==
  /\ q.stage \in {"quoted", "parsed"} => q.out = QuotedForm(q.argv)
  /\ q.stage = "parsed" => q.words = q.argv

\* the string the quoter's loops write has that form and that reading; what
\* can differ is the string read back after the writes left the buffer
WrittenStringRoundTrips ==
  q.stage # "none" =>
    /\ build_command_from_argv(q.argv) = QuotedForm(q.argv)
    /\ sh_parse(build_command_from_argv(q.argv)) = q.argv

\* with no write past a buffer the quoter's output round-trips
RoundTripWithinBuffers ==
  ~QuoterOverflows(q.argv) => C13_QuoterRoundTrip

\* C15: the quoter never writes past a buffer it allocated: the quoted form of
\* each argument with its terminator fits in the 4*length+3 bytes of
\* escaped_arg, and the concatenation of the quoted arguments and separators
\* with its terminator fits in the (sum of (length+1)) + 1 bytes of cmd.
C15_WritesStayInBuffers ==
  q.stage \in {"quoted", "parsed", "crashed"} =>
    /\ \A i \in 1..Len(q.argv) :
         Len(escaped_arg(q.argv[i])) + 1 <= ArgBufSize(q.argv[i])
    /\ Len(build_command_from_argv(q.argv)) + 1 <= CmdBufSize(q.argv)

\* only the empty argument vector is quoted within the buffers
OnlyEmptyVectorFits ==
  q.stage # "none" => (QuoterOverflows(q.argv) <=> Len(q.argv) >= 1)

\* C14: system(NULL) returns 0 in every environment, gate set or unset,
\* without forking an SSH child and without calling the raw system.
C14_SystemNullReturnsZero ==
  (call.hook = "system" /\ IsNull(call.hint)) =>
    /\ pc = "returned" /\ ret = 0
    /\ ~tr.intercepted /\ tr.forks = 0 /\ child.state = "none"
    /\ tr.raw_slot = "none" /\ slot["system"] = 0

C14_Witness ==
  /\ call.hook = "system" /\ IsNull(call.hint)
  /\ env.app_id /\ ~IsNull(env.cwd) /\ ~IsNull(env.host) /\ ~IsNull(env.port)
  /\ pc = "returned" /\ ret = 0 /\ tr.forks = 0

\* C16: the child forked by the dispatcher calls only through the dispatcher's
\* execve pointer, which holds the next-in-chain execve and never the
\* library's own hook, on /usr/bin/ssh or /usr/bin/sshpass; if that call
\* returns, the child ends with status 127; the child never runs a hook, and
\* one intercepted call forks one child at most.
C16_ChildUsesRawExecve ==
  /\ tr.forks <= 1
  /\ child.state # "none" =>
       /\ tr.forks = 1 /\ tr.intercepted
       /\ child.orig_execve # HookAddrOf("execve")
       /\ child.orig_execve \in {0, AddrOf("execve")}
       /\ child.state # "nested" /\ child.exec # "hooked"
  /\ child.exec \in {"replaced", "returned"} /\ child.orig_execve # 0 =>
       /\ child.binary \in {s_usr_bin_ssh, s_usr_bin_sshpass}
       /\ child.binary = s_usr_bin_sshpass <=> ~IsNull(env.password)
  /\ child.exec = "returned" =>
       (child.state \in {"zombie", "reaped"} /\ child.status = W_EXITCODE(127))

C16_Witness ==
  /\ tr.forks = 1 /\ child.orig_execve = AddrOf("execve")
  /\ child.exec = "returned" /\ child.binary = s_usr_bin_ssh
  /\ child.state = "reaped" /\ child.status = W_EXITCODE(127)
  /\ call.hook = "execve" /\ pc = "returned" /\ ret = 127

\* WIFEXITED / WIFSIGNALED of a wait status
WIFEXITED(status) == status % 128 = 0
WIFSIGNALED(status) == status % 128 # 0

\* C17: an exec hook ends the calling process with status 0 only if the SSH
\* child exited normally with exit status 0; a child killed by a signal is
\* never reported by the dispatcher as result 0.
C17_ExitZeroOnlyOnCleanExit ==
  /\ (call.hook \in ExecHooks /\ pc = "exited") =>
       (child.state = "reaped" /\ WIFEXITED(child.status) /\ child.status = W_EXITCODE(0))
  /\ (tr.dispatched /\ child.state = "reaped" /\ WIFSIGNALED(child.status)) =>
       tr.result # 0

\* the same holds of the children that exit by themselves
ExitZeroOnlyOnZeroStatus ==
  (call.hook \in ExecHooks /\ pc = "exited") =>
    /\ child.state = "reaped"
    /\ WIFEXITED(child.status) => child.status = W_EXITCODE(0)

\* C18: the full command, the host copy and every string of the SSH argument
\* vector are released before the dispatcher returns in the parent, on each of
\* its exit paths (here: when every allocation succeeded).
C18_AllReleased ==
  (tr.dispatched /\ tr.alloc_failed = "none") => heap = {}

\* this holds on every exit path but the failing waitpid
ReleasedUnlessWaitFails ==
  (tr.dispatched /\ tr.alloc_failed = "none" /\ tr.fail # "wait") => heap = {}

\* C19: every child forked by the dispatcher is reaped by the parent before
\* the hook returns or ends the process.
C19_ChildReaped ==
  (tr.forks >= 1 /\ pc \in {"returned", "exited"}) => child.state = "reaped"

\* this holds whenever waitpid succeeds
ReapedUnlessWaitFails ==
  (tr.forks >= 1 /\ pc \in {"returned", "exited"} /\ tr.fail # "wait") =>
    child.state = "reaped"

\* the exit code a normally ended child was given to _exit
ExitCodeOf(status) == status \div 256

\* C20: the dispatcher's result is the child's exit status when fork and wait
\* succeed and the child exits normally, and -1 when fork fails or waitpid
\* fails; after a failed fork no wait is performed.
C20_DispatcherResult ==
  tr.dispatched =>
    /\ (tr.forks = 1 /\ tr.fail = "none") =>
         /\ child.state = "reaped"
         /\ WIFEXITED(child.status) => tr.result = ExitCodeOf(child.status)
    /\ tr.fail = "fork" =>
         (tr.result = -1 /\ tr.forks = 0 /\ child.state = "none")
    /\ tr.fail = "wait" =>
         (tr.result = -1 /\ tr.forks = 1 /\ child.state # "reaped")

C20_Witness ==
  /\ tr.dispatched /\ tr.forks = 1 /\ tr.fail = "none" /\ tr.alloc_failed = "none"
  /\ child.state = "reaped" /\ child.exec = "replaced" /\ child.status = W_EXITCODE(1)
  /\ tr.result = 1 /\ call.hook = "execv" /\ pc = "returned" /\ ret = 1

\* C21: for every static pointer and every interleaving of concurrent hook
\* calls: once the pointer holds a non-null address it is never changed to a
\* different value, every store stores the same resolved address, and no
\* thread calls through the pointer before it has been filled.
C21_SlotStableAndFilled ==
  /\ \A w \in stores : w.old # 0 => w.value = w.old
  /\ \A w \in stores : w.value = AddrOf(SlotSymbol(w.slot))
  /\ \A t \in Threads : thread[t].pc = "called" => thread[t].called # 0

\* dlsym found every symbol it was asked for
AllResolved == \A l \in lookups : l.addr # 0

\* the three statements hold in every interleaving in which dlsym finds the
\* symbols; a pointer once stored keeps its value in every interleaving
StableAndFilledWhenResolved ==
  /\ \A w \in stores : w.old # 0 => w.value = w.old
  /\ \A v, w \in stores : v.slot = w.slot => v.value = w.value
  /\ AllResolved => C21_SlotStableAndFilled

\* two threads both find the pointer empty and both store to it
BothThreadsStore ==
  /\ \E w \in stores : w.slot = "execve" /\ w.old = 0 /\ w.value = AddrOf("execve")
  /\ \E w \in stores : w.slot = "execve" /\ w.old # 0
  /\ \A t \in Threads : thread[t].pc = "called" /\ thread[t].called = AddrOf("execve")

\* C22: when dlsym yields a null address, no hook calls through it: not the
\* fall-through branch of the six exec/system hooks, not the chdir hook, not
\* the dispatcher's child; the call is surfaced as a failure instead.
C22_NullNeverCalled ==
  /\ tr.raw_slot # "none" => tr.raw_addr # 0
  /\ \A i \in 1..Len(cd.raw) : cd.raw[i].addr # 0
  /\ child.exec # "none" => child.orig_execve # 0

\* the calls through a null pointer are exactly those made after dlsym
\* returned NULL for that pointer in this call
NullCalledOnlyWhenUnresolved ==
  /\ (tr.raw_slot # "none" /\ tr.raw_addr = 0) => slot[tr.raw_slot] = 0
  /\ (Len(cd.raw) >= 1 /\ cd.raw[1].addr = 0) => slot["chdir"] = 0
  /\ (child.exec # "none" /\ child.orig_execve = 0) => slot["ssh_execve"] = 0

\* C23: with the gate passed and REMOTE_VM_HOST unset, an intercepted call
\* fails cleanly: the absent host is never copied or parsed, no child is
\* forked, and the dispatcher returns -1 with errno set.
C23_UnsetHostFailsCleanly ==
  (tr.intercepted /\ env.app_id /\ IsNull(env.host)) =>
    /\ ~tr.null_host
    /\ tr.forks = 0 /\ child.state = "none"
    /\ tr.dispatched => (tr.result = -1 /\ errno \in {ENOMEM, EINVAL})

\* no child is forked for an unset host and a dispatcher that returns
\* returns -1; but unless the full command could not be allocated, it has
\* handed the null pointer to strdup first
UnsetHostNeverForks ==
  (tr.intercepted /\ IsNull(env.host)) =>
    /\ tr.forks = 0 /\ child.state = "none"
    /\ tr.dispatched => tr.result = -1
    /\ (tr.dispatched /\ tr.alloc_failed # "full_command") => tr.null_host

====
